---- MODULE Spec2Model ----
(***************************************************************************)
(* HotOffThePRSS: the sent-article ledger (scheduler.py,                   *)
(* filter_and_update_sent_articles), the per-feed pipeline                 *)
(* (check_single_feed, send_to_webhook) and the loop of FeedScheduler.run. *)
(*                                                                         *)
(* Article identifiers are strings in the program; here they are the       *)
(* numbers 1..NumIds and the string sort order of sorted() is the order    *)
(* of the numbers.  Times are whole hours.                                 *)
(***************************************************************************)
EXTENDS Integers, FiniteSets, Sequences, TLC

\* ---------------------------------------------------------------- bounds
\* number of distinct article identifiers
NumIds == 3
\* the ledger size cap: stands for the 10000 of scheduler.py lines 70 and 86
Cap == 2
\* calls of filter_and_update_sent_articles one process makes in SpecLedger
MaxCalls == 2

\* entries one fetch of a feed returns
MaxEntries == 2
\* hours the clock runs
MaxClock == 1
\* the hour at which the model starts
StartHour == 100
\* feed definitions in the longest config["FEEDS"]
MaxFeeds == 3

\* timedelta(hours=24): the trailing window of check_single_feed
WindowHours == 24

IDs == 1..NumIds
Procs == {"p1", "p2"}
NoProc == "none"

VARIABLES
    fileExists,    \* sent_articles.yaml exists
    fileContent,   \* the identifiers sent_articles.yaml holds on disk
    fileCorrupt,   \* sent_articles.yaml holds something that is not a YAML list
    lockHolder,    \* the process that holds flock(LOCK_EX) on the file
    pc,            \* pc[p]: where process p is
    args,          \* args[p]: article_ids_to_check of p's call
    sentSet,       \* sent_articles_set, as p read it
    newIds,        \* new_article_ids, the value p's call returns
    calls,         \* calls[p]: calls p has started
    failed,        \* failed[p]: how an I/O error ended p's call, "no" if none did
    faulted,       \* history: some call of the sequential client met an I/O error
    before,        \* history: the ledger when p's call started
    seenNew,       \* history: ids returned as new by calls that overlapped p's call
    lockBreach,    \* history: the file was read/truncated/written by a process
                   \*          while another process held the lock
    preexisting,   \* history: the ledger before the first call
    submitted,     \* history: union of all candidate sets submitted so far
    returned,      \* history: union of all returned "new" sets so far
    disjointInputs,\* history: all candidate sets so far were pairwise disjoint
    twiceNew,      \* history: some id was returned as new by two calls
    kept,          \* history: the ids the ledger held when a call of one of two
                   \*          racing processes returned
    clock,         \* the time, in hours
    hostDst,       \* hours of daylight saving in effect in the host's time zone
    config,        \* config.json: the list config["FEEDS"]
    feedState,     \* feed_state.json: feed id -> check-state entry, or Absent
    snap,          \* FeedScheduler.run: feed_state, loaded once per scan
    scanNow,       \* FeedScheduler.run: now, taken once per scan
    feedIdx,       \* FeedScheduler.run: position in config["FEEDS"]
    chk,           \* check_single_feed: its locals
    dispatched,    \* history: <<identifier, endpoint>> pairs sent so far
    redispatched,  \* history: a pair was sent by two invocations
    prevChk,       \* history: the previous completed check of each feed
    scanHist,      \* history: what the current scan has done so far
    forceHist,     \* history: what the last on-demand check has done
    summary,       \* check_single_feed: entry.get('summary', ...) of an entry
    embed,         \* check_single_feed: the embed built for that entry
    usersExist,    \* users.json exists
    users,         \* users.json: the list of user records
    userHist       \* history: the last user-management request that was served

ledgerVars == <<fileExists, fileContent, fileCorrupt, lockHolder>>
callVars == <<pc, args, sentSet, newIds, calls, failed>>
histVars == <<before, seenNew, lockBreach, preexisting, submitted, returned,
              disjointInputs, twiceNew, faulted, kept>>
embedVars == <<summary, embed>>
userVars == <<usersExist, users, userHist>>
feedVars == <<clock, hostDst, config, feedState, snap, scanNow, feedIdx, chk,
              dispatched, redispatched, prevChk, scanHist, forceHist,
              embedVars, userVars>>
vars == <<ledgerVars, callVars, histVars, feedVars>>

\* ------------------------------------------------------- pure functions

\* sorted(list(S))[-10000:]: the Cap greatest identifiers of S
PruneLex(S) == {x \in S : Cardinality({y \in S : y > x}) < Cap}

\* a cap that is one too small
PruneOneLess(S) == {x \in S : Cardinality({y \in S : y > x}) < Cap - 1}

\* the slice taken from the wrong end of the sorted list
PruneLeast(S) == {x \in S : Cardinality({y \in S : y < x}) < Cap}

\* the list the function writes: line 70, and line 86
Prune(S) == PruneLex(S)

\* the k greatest identifiers of S: what is left of a list of S on disk
\* behind the bytes a shorter write from offset 0 has replaced
TailOf(S, k) == {x \in S : Cardinality({y \in S : y > x}) < k}

\* a forgotten subtraction: every candidate counts as new
GenuinelyNewAll(candidates, sent) == candidates

\* set(article_ids_to_check) - sent_articles_set
GenuinelyNew(candidates, sent) == candidates \ sent

\* the process is inside filter_and_update_sent_articles
InCall(p) == pc[p] \in {"open", "lock", "read", "write", "unlock",
                        "openW", "lockW", "writeW", "unlockW"}

\* a file access by p while another process holds the exclusive lock
Breach(p) == lockHolder \notin {NoProc, p}

\* ------------------------------- filter_and_update_sent_articles, by step

\* entry into the function with candidate set c (line 52)
Enter(p, c) ==
    /\ args' = [args EXCEPT ![p] = c]
    /\ sentSet' = [sentSet EXCEPT ![p] = {}]
    /\ newIds' = [newIds EXCEPT ![p] = {}]
    /\ failed' = [failed EXCEPT ![p] = "no"]
    /\ before' = [before EXCEPT ![p] = IF fileExists THEN fileContent ELSE {}]
    /\ seenNew' = [seenNew EXCEPT ![p] = {}]

\* open(SENT_ARTICLES_FILE, 'r+'): FileNotFoundError when the file is absent
OpenRW(p) ==
    /\ pc[p] = "open"
    /\ pc' = [pc EXCEPT ![p] = IF fileExists THEN "lock" ELSE "openW"]
    /\ UNCHANGED <<ledgerVars, args, sentSet, newIds, calls, failed, histVars>>

\* fcntl.flock(f, LOCK_EX): blocks while another process holds the lock
Lock(p) ==
    /\ pc[p] = "lock"
    /\ lockHolder = NoProc
    /\ lockHolder' = p
    /\ pc' = [pc EXCEPT ![p] = "read"]
    /\ UNCHANGED <<fileExists, fileContent, fileCorrupt, args, sentSet, newIds, calls, failed, histVars>>

\* sent_articles_set = set(yaml.safe_load(f) or [])
Read(p) ==
    /\ pc[p] = "read"
    /\ ~fileCorrupt
    /\ sentSet' = [sentSet EXCEPT ![p] = fileContent]
    /\ lockBreach' = (lockBreach \/ Breach(p))
    /\ pc' = [pc EXCEPT ![p] = "write"]
    /\ UNCHANGED <<ledgerVars, args, newIds, calls, failed, before, seenNew,
                   preexisting, submitted, returned, disjointInputs, twiceNew, kept, faulted>>

\* lines 63-77: decide, and if anything is new seek(0), truncate, dump
Write(p) ==
    /\ pc[p] = "write"
    /\ LET new == GenuinelyNew(args[p], sentSet[p])
       IN IF new # {}
          THEN /\ fileContent' = Prune(sentSet[p] \cup new)
               /\ newIds' = [newIds EXCEPT ![p] = new]
               /\ lockBreach' = (lockBreach \/ Breach(p))
          ELSE UNCHANGED <<fileContent, newIds, lockBreach>>
    /\ pc' = [pc EXCEPT ![p] = "unlock"]
    /\ UNCHANGED <<fileExists, fileCorrupt, lockHolder, args, sentSet, calls, failed, before, seenNew,
                   preexisting, submitted, returned, disjointInputs, twiceNew, kept, faulted>>

\* fcntl.flock(f, LOCK_UN) and the end of the with block
Unlock(p) ==
    /\ pc[p] = "unlock"
    /\ lockHolder' = IF lockHolder = p THEN NoProc ELSE lockHolder
    /\ pc' = [pc EXCEPT ![p] = "ret"]
    /\ UNCHANGED <<fileExists, fileContent, fileCorrupt, args, sentSet, newIds, calls, failed, histVars>>

\* except FileNotFoundError: open(SENT_ARTICLES_FILE, 'w') creates the file or
\* truncates the one another process has created meanwhile; no lock is held yet
OpenW(p) ==
    /\ pc[p] = "openW"
    /\ fileExists' = TRUE
    /\ fileContent' = {}
    /\ fileCorrupt' = FALSE
    /\ lockBreach' = (lockBreach \/ Breach(p))
    /\ pc' = [pc EXCEPT ![p] = "lockW"]
    /\ UNCHANGED <<lockHolder, args, sentSet, newIds, calls, failed, before, seenNew,
                   preexisting, submitted, returned, disjointInputs, twiceNew, kept, faulted>>

\* fcntl.flock(f, LOCK_EX) of the file-missing path
LockW(p) ==
    /\ pc[p] = "lockW"
    /\ lockHolder = NoProc
    /\ lockHolder' = p
    /\ pc' = [pc EXCEPT ![p] = "writeW"]
    /\ UNCHANGED <<fileExists, fileContent, fileCorrupt, args, sentSet, newIds, calls, failed, histVars>>

\* yaml.dump(sorted(list(article_ids_to_check))[-10000:], f): written from
\* offset 0 of the handle opened at line 84, with no truncate of its own.  A
\* list another process wrote after that open is replaced from the front: its
\* first entry at least is overwritten, a tail of it (its greatest
\* identifiers) may stay in the file behind the new list.
WriteW(p) ==
    /\ pc[p] = "writeW"
    /\ \E k \in 0..Cardinality(fileContent) :
          /\ fileContent # {} => k < Cardinality(fileContent)
          /\ fileContent' = Prune(args[p]) \cup TailOf(fileContent, k)
    /\ lockBreach' = (lockBreach \/ Breach(p))
    /\ pc' = [pc EXCEPT ![p] = "unlockW"]
    /\ UNCHANGED <<fileExists, fileCorrupt, lockHolder, args, sentSet, newIds, calls, failed, before,
                   seenNew, preexisting, submitted, returned, disjointInputs,
                   twiceNew, kept, faulted>>

\* fcntl.flock(f, LOCK_UN), end of with, new_article_ids = set(article_ids_to_check)
UnlockW(p) ==
    /\ pc[p] = "unlockW"
    /\ lockHolder' = IF lockHolder = p THEN NoProc ELSE lockHolder
    /\ newIds' = [newIds EXCEPT ![p] = args[p]]
    /\ pc' = [pc EXCEPT ![p] = "ret"]
    /\ UNCHANGED <<fileExists, fileContent, fileCorrupt, args, sentSet, calls, failed, histVars>>

\* an I/O error inside the try block, lines 54-80: open fails with an error
\* other than FileNotFoundError, flock fails, safe_load or set() raise on
\* content that is not a YAML list, or seek, truncate or dump raise.  The
\* with block closes the file, which drops the lock; except Exception (line
\* 90) prints, and new_article_ids is still the empty set of line 52.  A
\* failed write leaves the file as it was or, after the truncate, empty.
FailRW(p) ==
    /\ pc[p] \in {"open", "lock", "read", "write"}
    /\ pc[p] = "open" => fileExists
    /\ pc[p] = "write" => GenuinelyNew(args[p], sentSet[p]) # {}
    /\ IF pc[p] = "write"
       THEN fileContent' \in {fileContent, {}}
       ELSE UNCHANGED fileContent
    /\ lockHolder' = IF lockHolder = p THEN NoProc ELSE lockHolder
    /\ newIds' = [newIds EXCEPT ![p] = {}]
    /\ failed' = [failed EXCEPT ![p] = "caught"]
    /\ pc' = [pc EXCEPT ![p] = "ret"]
    /\ UNCHANGED <<fileExists, fileCorrupt, args, sentSet, calls, histVars>>

\* an I/O error inside the except FileNotFoundError block, lines 84-88: open
\* with mode 'w', flock or dump raise.  No except clause of the same try
\* statement catches an exception raised in a handler: it leaves the function
\* and line 93 is not reached.
FailW(p) ==
    /\ pc[p] \in {"openW", "lockW", "writeW"}
    /\ lockHolder' = IF lockHolder = p THEN NoProc ELSE lockHolder
    /\ failed' = [failed EXCEPT ![p] = "raised"]
    /\ pc' = [pc EXCEPT ![p] = "raised"]
    /\ UNCHANGED <<fileExists, fileContent, fileCorrupt, args, sentSet, newIds,
                   calls, histVars>>

\* a step of the function that fails
LedgerFault(p) ==
    /\ \/ FailRW(p)
       \/ FailW(p)
    /\ UNCHANGED feedVars

LedgerStep(p) ==
    /\ \/ OpenRW(p)
       \/ Lock(p)
       \/ Read(p)
       \/ Write(p)
       \/ Unlock(p)
       \/ OpenW(p)
       \/ LockW(p)
       \/ WriteW(p)
       \/ UnlockW(p)
    /\ UNCHANGED feedVars

\* ------------------------------------------ callers of the ledger function

\* a process calls filter_and_update_sent_articles(c) while others may be
\* inside it
LedgerCall(p, c) ==
    /\ pc[p] = "idle"
    /\ calls[p] < MaxCalls
    /\ calls' = [calls EXCEPT ![p] = @ + 1]
    /\ Enter(p, c)
    /\ pc' = [pc EXCEPT ![p] = "open"]
    /\ UNCHANGED <<ledgerVars, lockBreach, preexisting, submitted, returned,
                   disjointInputs, twiceNew, kept, faulted>>
    /\ UNCHANGED feedVars

\* return new_article_ids (line 93); the locals of the call are gone
LedgerReturn(p) ==
    /\ pc[p] = "ret"
    /\ pc' = [pc EXCEPT ![p] = "idle"]
    /\ seenNew' = [q \in Procs |->
                     IF q = p THEN {}
                     ELSE IF InCall(q) THEN seenNew[q] \cup newIds[p]
                     ELSE seenNew[q]]
    /\ args' = [args EXCEPT ![p] = {}]
    /\ sentSet' = [sentSet EXCEPT ![p] = {}]
    /\ newIds' = [newIds EXCEPT ![p] = {}]
    /\ before' = [before EXCEPT ![p] = {}]
    /\ failed' = [failed EXCEPT ![p] = "no"]
    /\ UNCHANGED <<ledgerVars, calls, lockBreach, preexisting, submitted,
                   returned, disjointInputs, twiceNew, kept, faulted>>
    /\ UNCHANGED feedVars

\* one of two processes started together calls the function, its candidates
\* added to the tally of what was submitted
RaceCall(p, c) ==
    /\ pc[p] = "idle"
    /\ calls[p] < MaxCalls
    /\ calls' = [calls EXCEPT ![p] = @ + 1]
    /\ Enter(p, c)
    /\ pc' = [pc EXCEPT ![p] = "open"]
    /\ submitted' = submitted \cup c
    /\ UNCHANGED <<ledgerVars, lockBreach, preexisting, returned,
                   disjointInputs, twiceNew, kept, faulted>>
    /\ UNCHANGED feedVars

\* ... and returns (line 93); what the ledger holds now is remembered
RaceReturn(p) ==
    /\ pc[p] = "ret"
    /\ pc' = [pc EXCEPT ![p] = "idle"]
    /\ kept' = kept \cup fileContent
    /\ args' = [args EXCEPT ![p] = {}]
    /\ sentSet' = [sentSet EXCEPT ![p] = {}]
    /\ newIds' = [newIds EXCEPT ![p] = {}]
    /\ before' = [before EXCEPT ![p] = {}]
    /\ failed' = [failed EXCEPT ![p] = "no"]
    /\ UNCHANGED <<ledgerVars, calls, seenNew, lockBreach, preexisting,
                   submitted, returned, disjointInputs, twiceNew, faulted>>
    /\ UNCHANGED feedVars

\* one client submits candidate sets one after another: the call ...
SeqCall(p, c) ==
    /\ pc[p] = "idle"
    /\ calls[p] < MaxCalls + 1
    /\ calls' = [calls EXCEPT ![p] = @ + 1]
    /\ Enter(p, c)
    /\ pc' = [pc EXCEPT ![p] = "open"]
    /\ submitted' = submitted \cup c
    /\ disjointInputs' = (disjointInputs /\ c \cap submitted = {})
    /\ UNCHANGED <<ledgerVars, lockBreach, preexisting, returned, twiceNew, kept,
                   faulted>>
    /\ UNCHANGED feedVars

\* ... and its return (line 93), the returned set added to the client's tally
SeqReturn(p) ==
    /\ pc[p] = "ret"
    /\ pc' = [pc EXCEPT ![p] = "seqdone"]
    /\ returned' = returned \cup newIds[p]
    /\ twiceNew' = (twiceNew \/ newIds[p] \cap returned # {})
    /\ faulted' = (faulted \/ failed[p] # "no")
    /\ UNCHANGED <<ledgerVars, args, sentSet, newIds, calls, failed, before, seenNew,
                   lockBreach, preexisting, submitted, disjointInputs, kept>>
    /\ UNCHANGED feedVars

\* ... or the exception the call raised, which the client catches
SeqRaise(p) ==
    /\ pc[p] = "raised"
    /\ pc' = [pc EXCEPT ![p] = "seqdone"]
    /\ faulted' = TRUE
    /\ UNCHANGED <<ledgerVars, args, sentSet, newIds, calls, failed, before, seenNew,
                   lockBreach, preexisting, submitted, returned, disjointInputs,
                   twiceNew, kept>>
    /\ UNCHANGED feedVars

\* the client is ready for its next call
SeqNext(p) ==
    /\ pc[p] = "seqdone"
    /\ pc' = [pc EXCEPT ![p] = "idle"]
    /\ args' = [args EXCEPT ![p] = {}]
    /\ sentSet' = [sentSet EXCEPT ![p] = {}]
    /\ newIds' = [newIds EXCEPT ![p] = {}]
    /\ before' = [before EXCEPT ![p] = {}]
    /\ failed' = [failed EXCEPT ![p] = "no"]
    /\ UNCHANGED <<ledgerVars, calls, seenNew, lockBreach, preexisting,
                   submitted, returned, disjointInputs, twiceNew, kept, faulted>>
    /\ UNCHANGED feedVars

\* ------------------------------------------------------- check_single_feed

\* a missing id, link or published_parsed of an entry; a missing last_checked
NoVal == 0

\* feed_config.get("id") of a feed definition that has no id
NoId == ""

\* webhook.get("url") of a webhook that has no url
NoUrl == ""

\* last_post_status = None (line 125)
NoStatus == "None"

\* status codes of a fetch: parsed, or feed_data.get('status', 500)
StatusCodes == {200, 500}

\* config["FEEDS"] of an installation with one feed; update_interval in hours
FEEDS ==
    << [id |-> "f1", update_interval |-> 1, active |-> TRUE,
        webhooks |-> <<"w1">>] >>

\* config["FEEDS"] with a feed, a definition without id and a paused feed
SCHED_FEEDS ==
    << [id |-> "f1", update_interval |-> 1, active |-> TRUE,
        webhooks |-> <<"w1">>],
       [id |-> NoId, update_interval |-> 1, active |-> TRUE,
        webhooks |-> <<"w1">>],
       [id |-> "f2", update_interval |-> 1, active |-> FALSE,
        webhooks |-> <<"w2">>] >>

\* config["FEEDS"] with one feed that has three webhooks, one without url
POST_FEEDS ==
    << [id |-> "f1", update_interval |-> 1, active |-> TRUE,
        webhooks |-> <<"w1", NoUrl, "w2">>] >>

\* the keys feed_state.json can have
FeedIds ==
    UNION {{c[i].id : i \in 1..Len(c)} : c \in {FEEDS, SCHED_FEEDS, POST_FEEDS}}
        \ {NoId}

\* a feed the check-state file has no entry for
Absent ==
    [present |-> FALSE, last_checked |-> NoVal, status_code |-> NoVal,
     last_post |-> NoStatus]

\* feed_state[feed_id] = {}
Placeholder ==
    [present |-> TRUE, last_checked |-> NoVal, status_code |-> NoVal,
     last_post |-> NoStatus]

\* the entries a feed can hold at time now: with a native id, published 25,
\* 2 or 1 hours ago; one undated; one with a link only; one with neither
EntryPool(now) ==
    {[id |-> i, link |-> NoVal, pub |-> t] :
        i \in IDs, t \in {now - (WindowHours + 1), now - 2, now - 1}}
    \cup {[id |-> 1, link |-> NoVal, pub |-> NoVal],
          [id |-> NoVal, link |-> 1, pub |-> now - 2],
          [id |-> NoVal, link |-> NoVal, pub |-> now - 1]}

\* the subsets of S with at most n elements
RECURSIVE SubsetsUpTo(_, _)
SubsetsUpTo(S, n) ==
    IF n = 0 THEN {{}}
    ELSE LET less == SubsetsUpTo(S, n - 1)
         IN less \cup {x \cup {e} : x \in less, e \in S}

\* feed_data.entries of one fetch
FetchChoices(now) == SubsetsUpTo(EntryPool(now), MaxEntries)

\* feed_data.entries of a feed that publishes one article an hour
SchedFetch(now) == SUBSET {[id |-> 1, link |-> NoVal, pub |-> now - 1]}

\* feed_data.entries of a feed with three articles, two of the same hour
PostFetch(now) ==
    SubsetsUpTo({[id |-> 1, link |-> NoVal, pub |-> now - 1],
                 [id |-> 2, link |-> NoVal, pub |-> now - 2],
                 [id |-> 3, link |-> NoVal, pub |-> now - 1]}, MaxEntries)

\* feed_data.entries of a feed with a dated article, an article dated in one
\* fetch and undated in another, an undated article that has only a link, an
\* article of 25 hours ago and an article with neither id nor link
FilterFetch(now) ==
    SubsetsUpTo({[id |-> 1, link |-> NoVal, pub |-> now - 1],
                 [id |-> 2, link |-> NoVal, pub |-> now - 2],
                 [id |-> 2, link |-> NoVal, pub |-> NoVal],
                 [id |-> NoVal, link |-> 3, pub |-> NoVal],
                 [id |-> 3, link |-> NoVal, pub |-> now - (WindowHours + 1)],
                 [id |-> NoVal, link |-> NoVal, pub |-> now - 1]}, MaxEntries)

\* entry.get('id') or entry.get('link')
EntryKey(e) == IF e.id # NoVal THEN e.id ELSE e.link

\* datetime.fromtimestamp(time.mktime(published_time)).replace(tzinfo=utc):
\* mktime reads the UTC fields of published_parsed (tm_isdst = 0) as the
\* host's standard time, fromtimestamp renders the instant as the host's
\* wall-clock time, which is hostDst hours ahead while daylight saving is on
PublishedDt(pub) == pub + hostDst

\* an entry without published_parsed passes the filter
IsRecentOrUndated(e, now) ==
    e.pub = NoVal \/ PublishedDt(e.pub) >= now - WindowHours

\* lines 136-141: dated and published_dt >= now - 24 h
IsRecent(e, now) ==
    /\ e.pub # NoVal
    /\ PublishedDt(e.pub) >= now - WindowHours

\* recent_articles
Recent(es, now) == {e \in es : IsRecent(e, now)}

\* the keys of article_id_map
Keys(es) == {EntryKey(e) : e \in es} \ {NoVal}

\* article_id_map, built over recent_articles sorted newest first: of the
\* entries that share a key the last one, the oldest, stays
IdMaps(recent) ==
    {f \in [Keys(recent) -> recent] :
        \A k \in Keys(recent) :
            /\ EntryKey(f[k]) = k
            /\ \A e \in recent : EntryKey(e) = k => f[k].pub <= e.pub}

\* the entries recent_articles[0] can be after the sort of line 146
Latest(recent) == {e \in recent : \A o \in recent : o.pub <= e.pub}

\* articles_to_post, lines 156-168
ToPost(initial, recent, idMap, new) ==
    IF initial THEN Latest(recent) ELSE {idMap[k] : k \in new}

\* the sort of line 173 with reverse=True: newest first
PostOrdersNewestFirst(post) ==
    {s \in [1..Cardinality(post) -> post] :
        /\ \A i, j \in 1..Cardinality(post) : i # j => s[i] # s[j]
        /\ \A i, j \in 1..Cardinality(post) : i < j => s[i].pub >= s[j].pub}

\* articles_to_post after the sort of line 173, oldest first; entries of the
\* same publish time keep the order they had, which for a list built from
\* a set (line 168) is any order
PostOrders(post) ==
    {s \in [1..Cardinality(post) -> post] :
        /\ \A i, j \in 1..Cardinality(post) : i # j => s[i] # s[j]
        /\ \A i, j \in 1..Cardinality(post) : i < j => s[i].pub <= s[j].pub}

\* the calls of send_to_webhook the loops of lines 174-193 make, in order:
\* for each entry, one for each webhook that has a url
RECURSIVE Slots(_, _)
Slots(order, hooks) ==
    IF order = <<>> THEN <<>>
    ELSE LET urls == SelectSeq(hooks, LAMBDA u : u # NoUrl)
         IN [i \in 1..Len(urls) |-> [entry |-> Head(order), url |-> urls[i]]]
                \o Slots(Tail(order), hooks)

\* what requests.post can answer: a status code, or NoVal for a
\* requests.RequestException
Responses == {NoVal, 204, 429, 500}

\* the answers of an endpoint that is up
FewResponses == {204, 429}

\* ... with the success codes, the redirects and the errors told apart
AllResponses == {NoVal, 200, 201, 204, 301, 404, 429, 500}

\* send_to_webhook, lines 102-114: the label of one delivery attempt
SendToWebhook(r) ==
    IF r = NoVal THEN "Failed to Connect"
    ELSE IF r \in {200, 204} THEN "Success"
    ELSE IF r = 429 THEN "Rate Limited"
    ELSE "Error: " \o ToString(r)

\* the attempts stop at the first one that does not succeed
DeliverUntilFailure(slots, resp) ==
    LET bad == {k \in 1..Len(slots) : SendToWebhook(resp[k]) # "Success"}
        n == IF bad = {} THEN Len(slots)
             ELSE CHOOSE k \in bad : \A j \in bad : k <= j
    IN [k \in 1..n |-> [entry |-> slots[k].entry, url |-> slots[k].url,
                         code |-> resp[k],
                         label |-> SendToWebhook(resp[k])]]

\* lines 174-193: every call is made, whatever the calls before it returned
Deliver(slots, resp) ==
    [k \in 1..Len(slots) |-> [entry |-> slots[k].entry, url |-> slots[k].url,
                               code |-> resp[k],
                               label |-> SendToWebhook(resp[k])]]

\* the label of the first attempt is kept
FirstPostStatus(attempts, last) ==
    IF attempts = <<>> THEN last ELSE Head(attempts).label

\* last_post_status: assigned by every call of line 193
RECURSIVE LastPostStatus(_, _)
LastPostStatus(attempts, last) ==
    IF attempts = <<>> THEN last
    ELSE LastPostStatus(Tail(attempts), Head(attempts).label)

\* the <<identifier, endpoint>> pairs of a list of attempts
Pairs(attempts) ==
    {<<EntryKey(attempts[k].entry), attempts[k].url>> : k \in 1..Len(attempts)}

\* ... of those among them that ended with the given label
PairsWith(attempts, label) ==
    {<<EntryKey(attempts[k].entry), attempts[k].url>> :
        k \in {j \in 1..Len(attempts) : attempts[j].label = label}}

NoCheck == [feed |-> "none", now |-> NoVal, status |-> NoVal, fetched |-> {},
            ledger |-> {}, recent |-> {}, initial |-> FALSE, posted |-> {},
            attempts |-> <<>>, last |-> NoStatus]

\* lines 118-160 or 167: fetch, keep the recent entries, load the check-state
\* and call the ledger with the keys of article_id_map; or return early
CheckStart(p, status, es) ==
    /\ pc[p] = "check"
    /\ status # 200 => es = {}
    /\ LET feed == config[feedIdx[p]].id
           recent == Recent(es, clock)
           c == [feed |-> feed, now |-> clock, status |-> status,
                 fetched |-> es,
                 ledger |-> IF fileExists THEN fileContent ELSE {},
                 recent |-> recent,
                 initial |-> ~feedState[feed].present, posted |-> {},
                 attempts |-> <<>>, last |-> NoStatus]
       IN /\ chk' = [chk EXCEPT ![p] = c]
          /\ IF recent = {}
             THEN /\ pc' = [pc EXCEPT ![p] = "checked"]
                  /\ UNCHANGED <<args, sentSet, newIds, failed, before, seenNew>>
             ELSE /\ pc' = [pc EXCEPT ![p] = "open"]
                  /\ Enter(p, Keys(recent))
    /\ UNCHANGED <<ledgerVars, calls, lockBreach, preexisting, submitted,
                   returned, disjointInputs, twiceNew, kept, faulted>>
    /\ UNCHANGED <<clock, hostDst, embedVars, userVars, config, forceHist, feedState, snap, scanNow, feedIdx,
                   dispatched, redispatched, prevChk, scanHist>>

\* an exception in lines 118-151, before the ledger is called:
\* feedparser.parse raises, or time.mktime raises OverflowError on a
\* published_parsed outside the range of the platform's time_t
CheckRaise(p) ==
    /\ pc[p] = "check"
    /\ chk' = [chk EXCEPT ![p] =
                 [NoCheck EXCEPT !.feed = config[feedIdx[p]].id, !.now = clock]]
    /\ pc' = [pc EXCEPT ![p] = "raised"]
    /\ UNCHANGED <<ledgerVars, args, sentSet, newIds, calls, failed, histVars>>
    /\ UNCHANGED <<clock, hostDst, embedVars, userVars, config, forceHist, feedState, snap, scanNow, feedIdx,
                   dispatched, redispatched, prevChk, scanHist>>

\* lines 156-195: choose the entries to post and send each to every webhook
\* that has a url; answers holds the answers the endpoints can give
CheckPost(p, answers) ==
    /\ pc[p] = "ret"
    /\ \E first \in Latest(chk[p].recent), idMap \in IdMaps(chk[p].recent) :
        LET c == chk[p]
            new == IF c.initial THEN {} ELSE newIds[p]
            all == ToPost(c.initial, c.recent, idMap, new)
            post == IF c.initial THEN all \cap {first} ELSE all
        IN \E order \in PostOrders(post) :
            LET slots == Slots(order, config[feedIdx[p]].webhooks)
            IN \E resp \in [1..Len(slots) -> answers] :
                LET attempts == Deliver(slots, resp)
                    sent == {pr \in Pairs(attempts) : pr[1] # NoVal}
                IN /\ chk' = [chk EXCEPT ![p].posted = post,
                                         ![p].attempts = attempts,
                                         ![p].last =
                                             LastPostStatus(attempts, NoStatus)]
                   /\ dispatched' = dispatched \cup sent
                   /\ redispatched' = (redispatched \/ sent \cap dispatched # {})
    /\ pc' = [pc EXCEPT ![p] = "checked"]
    /\ UNCHANGED <<ledgerVars, args, sentSet, newIds, calls, failed, histVars>>
    /\ UNCHANGED <<clock, hostDst, embedVars, userVars, config, forceHist, feedState, snap, scanNow, feedIdx,
                   prevChk, scanHist>>

\* ------------------------------------------- check_single_feed: the embed

\* no embed has been built
NoEmbed == [built |-> FALSE, description |-> <<>>]

\* line 181: the greatest length a description has without being cut
Budget == 250

\* line 182: the characters of a cut summary that are kept
Keep == 247

\* line 182: "..."
Ellipsis == <<".", ".", ".">>

\* the characters str.strip() removes
Whitespace == {" ", "\n"}

\* where the match of '<[^<]+?>' that starts at position a of s ends, or 0:
\* s[a] is '<', one or more characters other than '<' follow, as few as
\* possible, and then '>'
MatchEnd(s, a) ==
    IF s[a] # "<" THEN 0
    ELSE LET ends == {b \in a + 2..Len(s) :
                         /\ s[b] = ">"
                         /\ \A j \in a + 1..b - 1 : s[j] # "<"}
         IN IF ends = {} THEN 0
            ELSE CHOOSE b \in ends : \A c \in ends : b <= c

\* the positions of s that lie in a match of '<[^<]+?>'.  A match holds no
\* '<' after its first character, so no match starts inside another one and
\* the matches re.sub finds from left to right are all the matches there are
Matched(s) ==
    UNION {a..MatchEnd(s, a) : a \in {c \in 1..Len(s) : MatchEnd(s, c) # 0}}

\* line 180: re.sub('<[^<]+?>', '', summary): what is outside the matches
StripTags(s) ==
    LET gone == Matched(s)
        marked == [i \in 1..Len(s) |-> [char |-> s[i], stays |-> i \notin gone]]
        left == SelectSeq(marked, LAMBDA m : m.stays)
    IN [k \in 1..Len(left) |-> left[k].char]

\* line 180: .strip()
StripSpace(s) ==
    LET ink == {i \in 1..Len(s) : s[i] \notin Whitespace}
    IN IF ink = {} THEN <<>>
       ELSE SubSeq(s, CHOOSE i \in ink : \A j \in ink : i <= j,
                      CHOOSE i \in ink : \A j \in ink : i >= j)

\* a long summary is cut at the budget and the marker is added
TruncateAtBudget(s) ==
    IF Len(s) > Budget THEN SubSeq(s, 1, Budget) \o Ellipsis ELSE s

\* lines 181-182: a long summary is cut to make room for the marker
Truncate(s) ==
    IF Len(s) > Budget THEN SubSeq(s, 1, Keep) \o Ellipsis ELSE s

\* lines 180-182: the description of the embed of an entry with summary s
Description(s) == Truncate(StripSpace(StripTags(s)))

\* the least and the greatest number of letters in the text of a summary
MinText == 243
MaxText == 254

\* the text of a summary: n letters
Text(n) == [i \in 1..n |-> IF i % 2 = 1 THEN "a" ELSE "b"]

\* what a summary has before and after its text: nothing, white space,
\* tags, and brackets that are no tag
Margins ==
    {<<>>, <<" ">>, <<"\n", " ">>, <<"<", "p", ">">>, <<"<", "/", "p", ">", " ">>,
     <<"<", ">">>, <<"<">>, <<">">>, <<" ", "<", "b", "r", " ", "/", ">", "x">>}

\* the summaries of the entries: short ones, and ones about as long as the
\* budget
Summaries ==
    {pre \o Text(n) \o post :
        pre \in Margins, post \in Margins, n \in {0, 1} \cup (MinText..MaxText)}

\* lines 177-187: the embed of an entry is built from its summary
BuildEmbed ==
    /\ ~embed.built
    /\ embed' = [built |-> TRUE, description |-> Description(summary)]
    /\ UNCHANGED <<ledgerVars, callVars, histVars>>
    /\ UNCHANGED <<clock, hostDst, config, feedState, snap, scanNow, feedIdx,
                   chk, dispatched, redispatched, prevChk, scanHist, forceHist,
                   summary, userVars>>

\* lines 174-177: the loop takes the next entry to post
NextEntry ==
    /\ embed.built
    /\ \E next \in Summaries : summary' = next
    /\ embed' = NoEmbed
    /\ UNCHANGED <<ledgerVars, callVars, histVars>>
    /\ UNCHANGED <<clock, hostDst, config, feedState, snap, scanNow, feedIdx,
                   chk, dispatched, redispatched, prevChk, scanHist, forceHist,
                   userVars>>

\* ------------------------------------------------------- FeedScheduler.run

\* what a scan has done so far: the check-state as line 208 loaded it, the
\* positions in config["FEEDS"] whose pipeline ran, those whose run raised
NoScan == [loaded |-> [f \in FeedIds |-> Absent], ran |-> <<>>, raised |-> {}]

\* lines 207-209: load the configuration and the check-state, take now
ScanStart(p) ==
    /\ pc[p] = "idle"
    /\ snap' = [snap EXCEPT ![p] = feedState]
    /\ scanNow' = [scanNow EXCEPT ![p] = clock]
    /\ feedIdx' = [feedIdx EXCEPT ![p] = 1]
    /\ scanHist' = [scanHist EXCEPT ![p] = [NoScan EXCEPT !.loaded = feedState]]
    /\ pc' = [pc EXCEPT ![p] = "scan"]
    /\ UNCHANGED <<ledgerVars, args, sentSet, newIds, calls, failed, histVars>>
    /\ UNCHANGED <<clock, hostDst, embedVars, userVars, config, forceHist, feedState, chk, dispatched,
                   redispatched, prevChk>>

\* should_check stays True
AlwaysCheck(entry, now, interval) == TRUE

\* lines 215-222: should_check
ShouldCheck(entry, now, interval) ==
    ~(entry.last_checked # NoVal /\ now - entry.last_checked < interval)

\* lines 211-231: the next feed of the scan is passed over (it has no id, or
\* should_check is False), or its pipeline is called
FeedDue(p) ==
    /\ pc[p] = "scan"
    /\ feedIdx[p] <= Len(config)
    /\ LET cfg == config[feedIdx[p]]
       IN IF /\ cfg.id # NoId
             /\ ShouldCheck(snap[p][cfg.id], scanNow[p], cfg.update_interval)
          THEN /\ snap' = [snap EXCEPT ![p][cfg.id] =
                              IF @.present THEN @ ELSE Placeholder]
               /\ scanHist' = [scanHist EXCEPT ![p].ran = Append(@, feedIdx[p])]
               /\ pc' = [pc EXCEPT ![p] = "check"]
               /\ UNCHANGED feedIdx
          ELSE /\ feedIdx' = [feedIdx EXCEPT ![p] = @ + 1]
               /\ UNCHANGED <<snap, pc, scanHist>>
    /\ UNCHANGED <<ledgerVars, args, sentSet, newIds, calls, failed, histVars>>
    /\ UNCHANGED <<clock, hostDst, embedVars, userVars, config, forceHist, feedState, scanNow, chk, dispatched,
                   redispatched, prevChk>>

\* only the entry of the feed just checked is written to the file
RecordedAlone(state, feed, now, status, last) ==
    [f \in FeedIds |->
        IF f = feed
        THEN [present |-> TRUE, last_checked |-> now, status_code |-> status,
              last_post |-> IF last # NoStatus THEN last
                            ELSE state[feed].last_post]
        ELSE Absent]

\* last_post is assigned whatever check_single_feed returned
RecordedOverwriting(state, feed, now, status, last) ==
    [state EXCEPT ![feed] =
        [present |-> TRUE, last_checked |-> now, status_code |-> status,
         last_post |-> last]]

\* lines 233-240: feed_state with the result of the check written into the
\* entry of the feed; last_post only when a delivery was attempted
Recorded(state, feed, now, status, last) ==
    [state EXCEPT ![feed] =
        [present |-> TRUE, last_checked |-> now, status_code |-> status,
         last_post |-> IF last # NoStatus THEN last ELSE @.last_post]]

\* lines 231-246: the check has returned; record and save the check-state
SchedSave(p) ==
    /\ pc[p] = "checked"
    /\ LET feed == config[feedIdx[p]].id
           new == Recorded(snap[p], feed, scanNow[p], chk[p].status,
                           chk[p].last)
       IN /\ snap' = [snap EXCEPT ![p] = new]
          /\ feedState' = new
          /\ prevChk' = [prevChk EXCEPT ![feed] =
                            [done |-> TRUE, recent |-> chk[p].recent,
                             initial |-> chk[p].initial,
                             seeded |-> @.seeded \/ chk[p].recent # {},
                             limited |-> PairsWith(chk[p].attempts,
                                                   "Rate Limited")]]
    /\ feedIdx' = [feedIdx EXCEPT ![p] = @ + 1]
    /\ chk' = [chk EXCEPT ![p] = NoCheck]
    /\ args' = [args EXCEPT ![p] = {}]
    /\ sentSet' = [sentSet EXCEPT ![p] = {}]
    /\ newIds' = [newIds EXCEPT ![p] = {}]
    /\ failed' = [failed EXCEPT ![p] = "no"]
    /\ before' = [before EXCEPT ![p] = {}]
    /\ pc' = [pc EXCEPT ![p] = "scan"]
    /\ UNCHANGED <<ledgerVars, calls, seenNew, lockBreach, preexisting,
                   submitted, returned, disjointInputs, twiceNew, kept, faulted>>
    /\ UNCHANGED <<clock, hostDst, embedVars, userVars, config, forceHist, scanNow, dispatched, redispatched,
                   scanHist>>

\* the exception leaves run: the scheduler process ends
SchedCrash(p) ==
    /\ pc[p] = "raised"
    /\ pc' = [pc EXCEPT ![p] = "crashed"]
    /\ UNCHANGED <<ledgerVars, args, sentSet, newIds, calls, failed, histVars>>
    /\ UNCHANGED feedVars

\* the handler records the failed check as a check: status 500 at scan time
SchedExceptRecording(p) ==
    /\ pc[p] = "raised"
    /\ LET new == Recorded(snap[p], config[feedIdx[p]].id, scanNow[p], 500,
                           NoStatus)
       IN snap' = [snap EXCEPT ![p] = new] /\ feedState' = new
    /\ scanHist' = [scanHist EXCEPT ![p].raised = @ \cup {feedIdx[p]}]
    /\ feedIdx' = [feedIdx EXCEPT ![p] = @ + 1]
    /\ chk' = [chk EXCEPT ![p] = NoCheck]
    /\ args' = [args EXCEPT ![p] = {}]
    /\ sentSet' = [sentSet EXCEPT ![p] = {}]
    /\ newIds' = [newIds EXCEPT ![p] = {}]
    /\ failed' = [failed EXCEPT ![p] = "no"]
    /\ before' = [before EXCEPT ![p] = {}]
    /\ pc' = [pc EXCEPT ![p] = "scan"]
    /\ UNCHANGED <<ledgerVars, calls, seenNew, lockBreach, preexisting,
                   submitted, returned, disjointInputs, twiceNew, kept, faulted>>
    /\ UNCHANGED <<clock, hostDst, embedVars, userVars, config, forceHist, scanNow,
                   dispatched, redispatched, prevChk>>

\* lines 243-246: check_single_feed raised; except Exception prints, nothing
\* is recorded or saved, and the loop goes on with the next feed
SchedExcept(p) ==
    /\ pc[p] = "raised"
    /\ scanHist' = [scanHist EXCEPT ![p].raised = @ \cup {feedIdx[p]}]
    /\ feedIdx' = [feedIdx EXCEPT ![p] = @ + 1]
    /\ chk' = [chk EXCEPT ![p] = NoCheck]
    /\ args' = [args EXCEPT ![p] = {}]
    /\ sentSet' = [sentSet EXCEPT ![p] = {}]
    /\ newIds' = [newIds EXCEPT ![p] = {}]
    /\ failed' = [failed EXCEPT ![p] = "no"]
    /\ before' = [before EXCEPT ![p] = {}]
    /\ pc' = [pc EXCEPT ![p] = "scan"]
    /\ UNCHANGED <<ledgerVars, calls, seenNew, lockBreach, preexisting,
                   submitted, returned, disjointInputs, twiceNew, kept, faulted>>
    /\ UNCHANGED <<clock, hostDst, embedVars, userVars, config, forceHist, feedState, snap, scanNow,
                   dispatched, redispatched, prevChk>>

\* the loop is left after one scan
ScanStop(p) ==
    /\ pc[p] = "scan"
    /\ feedIdx[p] > Len(config)
    /\ pc' = [pc EXCEPT ![p] = "stopped"]
    /\ UNCHANGED <<ledgerVars, args, sentSet, newIds, calls, failed, histVars>>
    /\ UNCHANGED feedVars

\* line 248: time.sleep(self.interval); the hour may turn meanwhile
ScanEnd(p) ==
    /\ pc[p] = "scan"
    /\ feedIdx[p] > Len(config)
    /\ \E t \in {clock, clock + 1} :
        /\ t <= StartHour + MaxClock
        /\ clock' = t
    /\ pc' = [pc EXCEPT ![p] = "idle"]
    /\ UNCHANGED <<ledgerVars, args, sentSet, newIds, calls, failed, histVars>>
    /\ UNCHANGED <<hostDst, embedVars, userVars, config, forceHist, feedState, snap, scanNow, feedIdx, chk,
                   dispatched, redispatched, prevChk, scanHist>>

\* ------------------------------------------------ main_web.force_check_feed

\* def check_single_feed(feed_config): the parameters of the function
CheckArity == 1

\* check_single_feed(feed_config, current_state): the arguments of the call
ForceArgs == 2

\* the identifiers a request to /force_check/<feed_id> can carry: those of
\* the configured feeds and one no feed has
ForceIds == FeedIds \cup {"f9"}

\* no on-demand check has been requested
NoForce == [feed |-> NoId, found |-> FALSE, ran |-> FALSE, saved |-> FALSE]

\* main_web.py lines 1139-1186: the handler of an on-demand check.  The feed
\* is looked up in the configuration; when it is found the scheduler module
\* and the check-state are loaded and check_single_feed is called with two
\* arguments.  The function takes one: the call raises TypeError before any
\* line of the function runs, except Exception (line 1183) shows the error,
\* and lines 1164-1181, which record and save the check-state, are skipped.
ForceCheck(p, id) ==
    /\ pc[p] = "idle"
    /\ ForceArgs # CheckArity
    /\ forceHist' = [feed |-> id,
                     found |-> \E i \in 1..Len(config) : config[i].id = id,
                     ran |-> FALSE, saved |-> FALSE]
    /\ UNCHANGED <<ledgerVars, callVars, histVars>>
    /\ UNCHANGED <<clock, hostDst, embedVars, userVars, config, feedState, snap, scanNow, feedIdx,
                   chk, dispatched, redispatched, prevChk, scanHist>>

\* ------------------------------------------------- main_web: the accounts

\* get_users() while users.json does not exist
NoUsers == <<>>

\* no user-management request has been served
NoUserOp == [op |-> "none", by |-> "", role |-> ""]

\* the roles the handlers know
Roles == {"owner", "super_admin", "admin"}

\* what the field 'role' of the form of add_user can carry: a request is
\* not bound to the choices the page offers
FormRoles == Roles \cup {"guest"}

\* a user record of a backup file that has no 'role'
NoRole == ""

\* the ids uuid.uuid4() gives out, and the most records users.json holds
MaxUsers == 3
UserIds == 1..MaxUsers

\* the usernames of the forms
Usernames == {"u1", "u2", "u3"}

\* the passwords a form can carry as the current one, and the password the
\* users choose
Passwords == {"pw1", "pw2"}
Chosen == {"pw1"}

\* the most records a backup file has
MaxBackup == 3

\* the user records of the backup files that are uploaded: files written by
\* hand or by another installation, whose ids need not differ
BackupRecords ==
    [id : 1..2, username : Usernames, password : Chosen,
     role : {NoRole, "owner", "super_admin"}]

\* users_data of an upload: a list of user records that have the required
\* fields (any other content raises, and nothing is saved); the usernames
\* are u1, u2, ... in the order of the list
Backups ==
    UNION {{d \in [1..n -> BackupRecords] :
               \A i \in 1..n : d[i].username = "u" \o ToString(i)} :
           n \in 1..MaxBackup}

\* the positions of the records with the given id
Having(id) == {i \in 1..Len(users) : users[i].id = id}

\* next((u for u in users if u['id'] == user_id), None): the position of the
\* first record with the id
FirstOf(id) == CHOOSE i \in Having(id) : \A j \in Having(id) : i <= j

\* login, lines 1007-1021, and load_logged_in_user: a session with this
\* user_id can be opened, by the first record of some username
CanLogin(id) ==
    /\ usersExist
    /\ \E i \in Having(id) :
          \A j \in 1..(i - 1) : users[j].username # users[i].username

\* g.user of a request of the session: get_user_by_id(session['user_id'])
GUser(id) == users[FirstOf(id)]

\* [u for u in users if u['id'] != user_id]
Without(id) == SelectSeq(users, LAMBDA u : u.id # id)

\* a request to the web process changes nothing but the accounts
WebOnly ==
    /\ UNCHANGED <<ledgerVars, callVars, histVars>>
    /\ UNCHANGED <<clock, hostDst, config, feedState, snap, scanNow, feedIdx,
                   chk, dispatched, redispatched, prevChk, scanHist, forceHist,
                   embedVars>>

\* setup, lines 983-1002: while users.json does not exist, a POST creates it
\* with one user, the owner
Setup(username, password) ==
    /\ ~usersExist
    /\ usersExist' = TRUE
    /\ \E id \in {1} :
          users' = <<[id |-> id, username |-> username, password |-> password,
                      role |-> "owner"]>>
    /\ userHist' = [op |-> "setup", by |-> "", role |-> "owner"]
    /\ WebOnly

\* add_user, lines 1219-1252, POST: the caller is owner or super_admin; a
\* role 'super_admin' asked for by another than the owner becomes 'admin';
\* the username must be new
AddUser(caller, username, password, asked) ==
    /\ CanLogin(caller)
    /\ GUser(caller).role \in {"owner", "super_admin"}
    /\ \A i \in 1..Len(users) : users[i].username # username
    /\ Len(users) < MaxUsers
    /\ LET role == IF asked = "super_admin" /\ GUser(caller).role # "owner"
                   THEN "admin" ELSE asked
       IN /\ \E id \in UserIds :
                /\ Having(id) = {}
                /\ \A other \in 1..(id - 1) : Having(other) # {}
                /\ users' = Append(users,
                                    [id |-> id, username |-> username,
                                     password |-> password, role |-> role])
          /\ userHist' = [op |-> "add", by |-> GUser(caller).role,
                          role |-> role]
    /\ UNCHANGED usersExist
    /\ WebOnly

\* promote_user, lines 1254-1268: the owner makes an admin a super_admin
PromoteUser(caller, target) ==
    /\ CanLogin(caller)
    /\ GUser(caller).role = "owner"
    /\ Having(target) # {}
    /\ GUser(target).role = "admin"
    /\ users' = [users EXCEPT ![FirstOf(target)].role = "super_admin"]
    /\ userHist' = [op |-> "promote", by |-> "owner", role |-> "super_admin"]
    /\ UNCHANGED usersExist
    /\ WebOnly

\* demote_user, lines 1270-1284: the owner makes a super_admin an admin
DemoteUser(caller, target) ==
    /\ CanLogin(caller)
    /\ GUser(caller).role = "owner"
    /\ Having(target) # {}
    /\ GUser(target).role = "super_admin"
    /\ users' = [users EXCEPT ![FirstOf(target)].role = "admin"]
    /\ userHist' = [op |-> "demote", by |-> "owner", role |-> "admin"]
    /\ UNCHANGED usersExist
    /\ WebOnly

\* change_password, lines 1194-1217: the caller gives the current password
ChangePassword(caller, current, new) ==
    /\ CanLogin(caller)
    /\ GUser(caller).password = current
    /\ users' = [users EXCEPT ![FirstOf(caller)].password = new]
    /\ userHist' = [op |-> "password", by |-> GUser(caller).role,
                    role |-> GUser(caller).role]
    /\ UNCHANGED usersExist
    /\ WebOnly

\* force_reset_password, lines 1308-1333: owner and super_admin set the
\* password of a user, a super_admin that of an admin only
ForceResetPassword(caller, target, new) ==
    /\ CanLogin(caller)
    /\ GUser(caller).role \in {"owner", "super_admin"}
    /\ Having(target) # {}
    /\ GUser(caller).role = "super_admin" => GUser(target).role = "admin"
    /\ users' = [users EXCEPT ![FirstOf(target)].password = new]
    /\ userHist' = [op |-> "reset", by |-> GUser(caller).role,
                    role |-> GUser(target).role]
    /\ UNCHANGED usersExist
    /\ WebOnly

\* delete_user, lines 1335-1374: not oneself, not a user whose record, the
\* first with the id, has role owner; the owner deletes any other user, a
\* super_admin an admin; every record with the id is removed
DeleteUser(caller, target) ==
    /\ CanLogin(caller)
    /\ target # caller
    /\ Having(target) # {}
    /\ GUser(target).role # "owner"
    /\ \/ GUser(caller).role = "owner"
       \/ GUser(caller).role = "super_admin" /\ GUser(target).role = "admin"
    /\ users' = Without(target)
    /\ userHist' = [op |-> "delete", by |-> GUser(caller).role,
                    role |-> GUser(target).role]
    /\ UNCHANGED usersExist
    /\ WebOnly

\* lines 1460-1467 of upload_users_backup: a record without role becomes an
\* admin, and when no record is an owner the first record becomes one
Restored(data) ==
    LET filled == [i \in 1..Len(data) |->
                      IF data[i].role = NoRole
                      THEN [data[i] EXCEPT !.role = "admin"] ELSE data[i]]
    IN IF \E i \in 1..Len(filled) : filled[i].role = "owner" THEN filled
       ELSE [filled EXCEPT ![1].role = "owner"]

\* upload_users_backup, lines 1427-1480: the owner replaces users.json by
\* the content of an uploaded file
UploadUsersBackup(caller, data) ==
    /\ CanLogin(caller)
    /\ GUser(caller).role = "owner"
    /\ users' = Restored(data)
    /\ userHist' = [op |-> "restore", by |-> "owner", role |-> "owner"]
    /\ UNCHANGED usersExist
    /\ WebOnly

\* ---------------------------------------------------------- specifications

\* the ledger file is absent, or holds at most Cap identifiers; no feed has
\* been checked
InitCore ==
    /\ fileExists \in BOOLEAN
    /\ fileContent \in {s \in SUBSET IDs : Cardinality(s) <= Cap /\ (fileExists \/ s = {})}
    /\ fileCorrupt \in {c \in BOOLEAN : c => (fileExists /\ fileContent = {})}
    /\ lockHolder = NoProc
    /\ pc = [p \in Procs |-> "idle"]
    /\ args = [p \in Procs |-> {}]
    /\ sentSet = [p \in Procs |-> {}]
    /\ newIds = [p \in Procs |-> {}]
    /\ calls = [p \in Procs |-> 0]
    /\ failed = [p \in Procs |-> "no"]
    /\ faulted = FALSE
    /\ before = [p \in Procs |-> {}]
    /\ seenNew = [p \in Procs |-> {}]
    /\ lockBreach = FALSE
    /\ preexisting = fileContent
    /\ submitted = {}
    /\ returned = {}
    /\ disjointInputs = TRUE
    /\ twiceNew = FALSE
    /\ kept = {}
    /\ clock = StartHour
    /\ feedState = [f \in FeedIds |-> Absent]
    /\ snap = [p \in Procs |-> [f \in FeedIds |-> Absent]]
    /\ scanNow = [p \in Procs |-> NoVal]
    /\ feedIdx = [p \in Procs |-> 1]
    /\ chk = [p \in Procs |-> NoCheck]
    /\ dispatched = {}
    /\ redispatched = FALSE
    /\ prevChk = [f \in FeedIds |->
                     [done |-> FALSE, recent |-> {}, initial |-> FALSE,
                      seeded |-> FALSE, limited |-> {}]]
    /\ scanHist = [p \in Procs |-> NoScan]
    /\ forceHist = NoForce

\* ... no embed is being built, and the web interface has not been set up
InitBase ==
    /\ InitCore
    /\ summary = <<>>
    /\ embed = NoEmbed
    /\ usersExist = FALSE
    /\ users = NoUsers
    /\ userHist = NoUserOp

\* ... on a host that keeps no daylight saving time
InitSeq == InitBase /\ hostDst = 0 /\ config = FEEDS

\* ... and with a ledger file that is sound
InitLedger == InitSeq /\ ~fileCorrupt

\* two processes call the ledger function concurrently; no I/O error occurs
NextLedger ==
    \E p \in Procs :
        \/ \E c \in SUBSET IDs : LedgerCall(p, c)
        \/ LedgerStep(p)
        \/ LedgerReturn(p)

SpecLedger == InitLedger /\ [][NextLedger]_vars

\* one process calls the ledger function again and again; I/O errors occur
NextSeq ==
    \/ \E c \in SUBSET IDs : SeqCall("p1", c)
    \/ LedgerStep("p1")
    \/ LedgerFault("p1")
    \/ SeqReturn("p1")
    \/ SeqRaise("p1")
    \/ SeqNext("p1")

SpecSeq == InitSeq /\ [][NextSeq]_vars

\* the scheduler runs on a host whose time zone may be in daylight saving
\* time, with one feed and a sound ledger file
Init == InitBase /\ hostDst \in {0, 1} /\ ~fileCorrupt /\ config = FEEDS

\* the scheduler process scans and checks its feed, whose articles vary; no
\* I/O error occurs
Next ==
    \/ ScanStart("p1")
    \/ FeedDue("p1")
    \/ \E status \in StatusCodes, es \in FetchChoices(clock) :
          CheckStart("p1", status, es)
    \/ LedgerStep("p1")
    \/ CheckPost("p1", FewResponses)
    \/ SchedSave("p1")
    \/ ScanEnd("p1")

Spec == Init /\ [][Next]_vars

\* the scheduler starts with several feed definitions and a ledger file that
\* is missing, empty or corrupt
InitSched ==
    InitBase /\ hostDst = 0 /\ fileContent = {} /\ config = SCHED_FEEDS

\* the scheduler process scans its feeds; checks raise and ledger I/O fails
NextSched ==
    \/ ScanStart("p1")
    \/ FeedDue("p1")
    \/ \E status \in StatusCodes, es \in SchedFetch(clock) :
          CheckStart("p1", status, es)
    \/ CheckRaise("p1")
    \/ LedgerStep("p1")
    \/ LedgerFault("p1")
    \/ CheckPost("p1", FewResponses)
    \/ SchedSave("p1")
    \/ SchedExcept("p1")
    \/ ScanEnd("p1")

SpecSched == InitSched /\ [][NextSched]_vars

\* the scheduler process is never starved of the processor, and every call
\* it makes (feedparser.parse, flock, requests.post with its timeout of 10 s,
\* time.sleep) returns or raises
SpecSchedFair == SpecSched /\ WF_vars(NextSched)

\* the scheduler starts with one feed that has several webhooks
InitPost ==
    InitBase /\ hostDst = 0 /\ ~fileCorrupt /\ config = POST_FEEDS

\* the scheduler process scans and checks its feed; deliveries fail
NextPost ==
    \/ ScanStart("p1")
    \/ FeedDue("p1")
    \/ \E status \in StatusCodes, es \in PostFetch(clock) :
          CheckStart("p1", status, es)
    \/ LedgerStep("p1")
    \/ CheckPost("p1", Responses)
    \/ SchedSave("p1")
    \/ ScanEnd("p1")

SpecPost == InitPost /\ [][NextPost]_vars

\* the scheduler starts with one feed and an empty or missing ledger
InitSend ==
    InitBase /\ hostDst = 0 /\ ~fileCorrupt /\ fileContent = {}
             /\ config = FEEDS

\* the scheduler process scans and checks its feed; the endpoint answers
\* with any status code
NextSend ==
    \/ ScanStart("p1")
    \/ FeedDue("p1")
    \/ \E status \in StatusCodes, es \in SchedFetch(clock) :
          CheckStart("p1", status, es)
    \/ LedgerStep("p1")
    \/ CheckPost("p1", AllResponses)
    \/ SchedSave("p1")
    \/ ScanEnd("p1")

SpecSend == InitSend /\ [][NextSend]_vars

\* the scheduler process runs as in SpecSched while the web process serves
\* requests for on-demand checks
NextWeb ==
    \/ NextSched
    \/ \E id \in ForceIds : ForceCheck("p2", id)

SpecWeb == InitSched /\ [][NextWeb]_vars

\* two processes are started on an installation whose ledger file may be
\* missing; no I/O error occurs
NextRace ==
    \E p \in Procs :
        \/ \E c \in SUBSET IDs : RaceCall(p, c)
        \/ LedgerStep(p)
        \/ RaceReturn(p)

SpecRace == InitLedger /\ [][NextRace]_vars

\* the scheduler process scans and checks its feed, some of whose articles
\* carry no date; no I/O error occurs
NextFilter ==
    \/ ScanStart("p1")
    \/ FeedDue("p1")
    \/ \E status \in StatusCodes, es \in FilterFetch(clock) :
          CheckStart("p1", status, es)
    \/ LedgerStep("p1")
    \/ CheckPost("p1", FewResponses)
    \/ SchedSave("p1")
    \/ ScanEnd("p1")

SpecFilter == Init /\ [][NextFilter]_vars

\* two scheduler processes are started on the same installation
\* (scheduler.py run twice); the feeds have no articles
NextTwo ==
    \E p \in Procs :
        \/ ScanStart(p)
        \/ FeedDue(p)
        \/ \E status \in StatusCodes : CheckStart(p, status, {})
        \/ SchedSave(p)
        \/ ScanEnd(p)

SpecTwo == InitSched /\ [][NextTwo]_vars

\* check_single_feed is about to build the embed of an entry
InitEmbed ==
    /\ InitCore /\ hostDst = 0 /\ ~fileCorrupt /\ fileContent = {}
    /\ fileExists /\ config = FEEDS
    /\ summary \in Summaries
    /\ embed = NoEmbed
    /\ usersExist = FALSE
    /\ users = NoUsers
    /\ userHist = NoUserOp

\* one embed after the other is built
NextEmbed == BuildEmbed \/ NextEntry

SpecEmbed == InitEmbed /\ [][NextEmbed]_vars

\* the web process is started on an installation without users.json
InitUsers ==
    /\ InitBase /\ hostDst = 0 /\ ~fileCorrupt /\ fileContent = {}
    /\ fileExists /\ config = FEEDS

\* the users of the web interface send their requests, one after the other
NextUsers ==
    \/ \E n \in Usernames, pw \in Chosen : Setup(n, pw)
    \/ \E c \in UserIds :
          \/ \E n \in Usernames, pw \in Chosen, r \in FormRoles :
                AddUser(c, n, pw, r)
          \/ \E t \in UserIds : PromoteUser(c, t)
          \/ \E t \in UserIds : DemoteUser(c, t)
          \/ \E cur \in Passwords, new \in Chosen :
                ChangePassword(c, cur, new)
          \/ \E t \in UserIds, new \in Chosen :
                ForceResetPassword(c, t, new)
          \/ \E t \in UserIds : DeleteUser(c, t)
          \/ \E data \in Backups : UploadUsersBackup(c, data)

SpecUsers == InitUsers /\ [][NextUsers]_vars

\* ------------------------------------------------------------------ claims

\* C1: the "new" sets returned by two calls of filter_and_update_sent_articles
\* that overlap in time are disjoint: a call never returns an identifier that
\* a call overlapping it has returned.
C1_ConcurrentNewDisjoint ==
    \A p \in Procs : pc[p] = "ret" => newIds[p] \cap seenNew[p] = {}

\* C3: no process reads, truncates or writes the ledger file while another
\* process holds the exclusive lock.
C3_LockDiscipline == ~lockBreach

\* the sequential client's call has ended without an I/O error
CallDone == pc["p1"] = "seqdone" /\ failed["p1"] = "no"

C5_CapAfterInsert ==
    \A p \in Procs :
        (pc[p] = "ret" /\ newIds[p] # {}) => Cardinality(fileContent) <= Cap

\* C10: the set a call that met no I/O error returns is the candidates that
\* were not in the ledger before the call, and all of them are in the ledger
\* file after the call.
C10_ReturnedAreRecorded ==
    CallDone =>
        /\ newIds["p1"] = args["p1"] \ before["p1"]
        /\ newIds["p1"] \subseteq fileContent

\* the scheduler's call of check_single_feed has returned (line 231)
Checked == pc["p1"] = "checked"

\* C2: no <<identifier, endpoint>> pair is sent by more than one invocation of
\* check_single_feed.
C2_AtMostOnce == ~redispatched

\* C6: a first-ever check that finds recent entries posts exactly one entry,
\* one with the greatest publish time, and afterwards the ledger holds the
\* identifier of every recent entry.
C6_FirstCheckSeedsAll ==
    (Checked /\ chk["p1"].initial /\ chk["p1"].recent # {}) =>
        /\ Cardinality(chk["p1"].posted) = 1
        /\ chk["p1"].posted \subseteq Latest(chk["p1"].recent)
        /\ Keys(chk["p1"].recent) \subseteq fileContent

\* C7: a check of a feed that has a check-state entry posts exactly the
\* identifiers the ledger returned as new, and when the check before it was
\* the first check and seeded the ledger, none of the seeded identifiers.
C7_PostsNewNotSeeded ==
    (Checked /\ ~chk["p1"].initial /\ chk["p1"].recent # {}) =>
        /\ Keys(chk["p1"].posted) = newIds["p1"]
        /\ \A f \in FeedIds :
              (f = chk["p1"].feed /\ prevChk[f].done /\ prevChk[f].initial)
                  => Keys(chk["p1"].posted) \cap Keys(prevChk[f].recent) = {}

\* C8: a check that finds the same recent entries as the check before it
\* posts nothing and leaves the ledger as it was.
C8_RecheckPostsNothing ==
    \A f \in FeedIds :
        (/\ Checked
         /\ f = chk["p1"].feed
         /\ prevChk[f].done
         /\ chk["p1"].recent # {}
         /\ chk["p1"].recent = prevChk[f].recent)
            => (chk["p1"].posted = {} /\ fileContent = before["p1"])

\* C9: no entry published more than 24 hours before the check is a candidate
\* of the check (submitted to the ledger or posted).
C9_OldNeverCandidate ==
    \A e \in chk["p1"].recent \cup chk["p1"].posted :
        e.pub # NoVal /\ chk["p1"].now - e.pub <= WindowHours

C12_FailClosed ==
    \A p \in Procs :
        failed[p] # "no" => (pc[p] # "raised" /\ newIds[p] = {})

\* C13: a check during which the ledger operation failed makes no delivery
\* attempt.
C13_LedgerErrorNoDispatch ==
    (Checked /\ failed["p1"] # "no") => chk["p1"].attempts = <<>>

\* the positions in config["FEEDS"] whose pipeline the current scan has run
Ran == {scanHist["p1"].ran[k] : k \in 1..Len(scanHist["p1"].ran)}

\* the scan has passed the last feed definition
ScanDone == pc["p1"] = "scan" /\ feedIdx["p1"] > Len(config)

\* the feed has no recorded last-checked time, or scan time minus
\* last-checked is at least its interval
DueBy(entry, now, interval) ==
    entry.last_checked = NoVal \/ now - entry.last_checked >= interval

\* ... for the i-th feed definition and the check-state the scan loaded
Due(i) ==
    DueBy(IF config[i].id = NoId THEN Absent
          ELSE scanHist["p1"].loaded[config[i].id],
          scanNow["p1"], config[i].update_interval)

\* C14 as stated: a scan runs the pipeline for a feed exactly when the feed is
\* due, and for no feed twice.
C14_DueExactly ==
    /\ \A i \in Ran : Due(i)
    /\ Cardinality(Ran) = Len(scanHist["p1"].ran)
    /\ ScanDone => \A i \in 1..Len(config) : Due(i) => i \in Ran

\* C14 amended: the same for the feeds that have an identifier.
C14_DueExactlyWithId ==
    /\ \A i \in Ran : Due(i)
    /\ Cardinality(Ran) = Len(scanHist["p1"].ran)
    /\ ScanDone =>
          \A i \in 1..Len(config) :
              (config[i].id # NoId /\ Due(i)) => i \in Ran

\* C14 witness: a scan is over that has checked the first feed and has
\* passed over the third, whose interval has not elapsed
C14_Witness ==
    /\ ScanDone
    /\ 1 \in Ran
    /\ 3 \notin Ran
    /\ ~Due(3)

\* C15: the scheduler runs the pipeline of no feed whose active flag is
\* false, and writes no check-state for such a feed.
C15_InactiveNeverChecked ==
    \A i \in 1..Len(config) :
        ~config[i].active =>
            /\ i \notin Ran
            /\ config[i].id # NoId => feedState[config[i].id] = Absent

\* C16: an exception raised by check_single_feed does not leave run, the scan
\* in which it was raised still checks every later feed that is due, and the
\* scan can end.
C16_RaiseDoesNotStopScan ==
    /\ pc["p1"] # "crashed"
    /\ (ScanDone /\ scanHist["p1"].raised # {}) =>
          /\ \A i \in 1..Len(config), r \in scanHist["p1"].raised :
                (i > r /\ config[i].id # NoId /\ Due(i)) => i \in Ran
          /\ ENABLED ScanEnd("p1")

\* C16 witness: a scan is over in which the check of the first feed raised
\* and the third feed was checked
C16_Witness ==
    /\ ScanDone
    /\ 1 \in scanHist["p1"].raised
    /\ 3 \in Ran
    /\ 3 \notin scanHist["p1"].raised

\* C17: scans end again and again, and in every scan each feed that has an
\* identifier and is due has its pipeline run, whatever the runs of the other
\* feeds do.
C17_LoopLive ==
    /\ []<>(pc["p1"] = "idle")
    /\ \A i \in 1..MaxFeeds :
          (/\ i <= Len(config)
           /\ pc["p1"] = "scan"
           /\ config[i].id # NoId
           /\ Due(i)
           /\ i \notin Ran)
              ~> (pc["p1"] = "check" /\ feedIdx["p1"] = i)

\* C17 witness: the hour has turned, the scheduler sleeps after a scan in
\* which the check of the first feed raised and the third feed was checked
C17_Witness ==
    /\ pc["p1"] = "idle"
    /\ clock = StartHour + 1
    /\ scanNow["p1"] = StartHour + 1
    /\ 1 \in scanHist["p1"].raised
    /\ 3 \in Ran

\* C18: every posted entry has exactly one delivery attempt on every webhook
\* that has a url, whatever the other attempts of the check answered.
C18_OneAttemptEach ==
    Checked =>
        LET a == chk["p1"].attempts
            hooks == config[feedIdx["p1"]].webhooks
            urls == {hooks[i] : i \in 1..Len(hooks)} \ {NoUrl}
        IN /\ \A e \in chk["p1"].posted, u \in urls :
                Cardinality({k \in 1..Len(a) :
                                a[k].entry = e /\ a[k].url = u}) = 1
           /\ Len(a) = Cardinality(chk["p1"].posted) * Cardinality(urls)

\* C18 witness: two entries were posted to two endpoints, the first attempt
\* was rate-limited, one failed to connect and one was refused
C18_Witness ==
    /\ Checked
    /\ Cardinality(chk["p1"].posted) = 2
    /\ Len(chk["p1"].attempts) = 4
    /\ chk["p1"].attempts[1].label = "Rate Limited"
    /\ chk["p1"].attempts[2].label = "Failed to Connect"
    /\ chk["p1"].attempts[3].label = "Error: 500"
    /\ chk["p1"].attempts[4].label = "Success"

\* C19: the check that follows a check in which the delivery of an entry to an
\* endpoint ended rate-limited attempts that delivery again, if the feed still
\* holds the entry.
C19_RateLimitedRetried ==
    \A f \in FeedIds :
        (Checked /\ f = chk["p1"].feed /\ prevChk[f].done) =>
            \A pr \in prevChk[f].limited :
                pr[1] \in Keys(chk["p1"].recent) =>
                    pr \in Pairs(chk["p1"].attempts)

\* C20: check_single_feed returns the label of its last delivery attempt,
\* the one for the last entry in posting order on the last webhook that has a
\* url, and returns None exactly when it has made no attempt.
C20_LastAttemptLabel ==
    Checked =>
        LET a == chk["p1"].attempts
            hooks == config[feedIdx["p1"]].webhooks
        IN /\ (a = <<>>) <=> (chk["p1"].last = NoStatus)
           /\ a # <<>> =>
                /\ chk["p1"].last = a[Len(a)].label
                /\ \A e \in chk["p1"].posted : e.pub <= a[Len(a)].entry.pub
                /\ \E i \in 1..Len(hooks) :
                      /\ hooks[i] = a[Len(a)].url
                      /\ \A j \in (i + 1)..Len(hooks) : hooks[j] = NoUrl

\* C20 witness: a check has made four attempts, the first rate-limited and
\* the last successful, and returns "Success"
C20_Witness ==
    /\ Checked
    /\ Len(chk["p1"].attempts) = 4
    /\ chk["p1"].attempts[1].label = "Rate Limited"
    /\ chk["p1"].attempts[4].label = "Success"
    /\ chk["p1"].last = "Success"

\* C21: every delivery attempt is labelled by the answer it got: "Success"
\* for every status code from 200 to 299, "Rate Limited" for 429, "Error: "
\* followed by the code for every other code, and "Failed to Connect" when
\* the request raised.
C21_ClassifiesEveryAnswer ==
    Checked =>
        \A k \in 1..Len(chk["p1"].attempts) :
            LET c == chk["p1"].attempts[k].code
                l == chk["p1"].attempts[k].label
            IN /\ c = NoVal => l = "Failed to Connect"
               /\ (c # NoVal /\ c \in 200..299) => l = "Success"
               /\ c = 429 => l = "Rate Limited"
               /\ (c # NoVal /\ c \notin 200..299 /\ c # 429)
                     => l = "Error: " \o ToString(c)

\* C22: an on-demand check of a feed that is in the configuration runs the
\* pipeline of the scheduler and saves the feed's check-state.
C22_ForceCheckRunsAndSaves ==
    forceHist.found =>
        /\ forceHist.ran
        /\ forceHist.saved
        /\ feedState[forceHist.feed].present

C24_WriteOnce ==
    (/\ \A p \in Procs : ~InCall(p)
     /\ \E p \in Procs : pc[p] = "ret"
     /\ Cardinality(preexisting \cup submitted) <= Cap)
        => kept \subseteq fileContent

C26_KeylessNeverPosted ==
    Checked =>
        /\ \A e \in chk["p1"].posted : EntryKey(e) # NoVal
        /\ \A k \in 1..Len(chk["p1"].attempts) :
              EntryKey(chk["p1"].attempts[k].entry) # NoVal
        /\ NoVal \notin fileContent

\* the entries of the fetch that carry a publish time
Dated(es) == {e \in es : e.pub # NoVal}

\* C27: no check posts an entry that has no publish time, and the
\* identifiers a check adds to the ledger are identifiers of dated entries of
\* its fetch.
C27_UndatedNeverPosted ==
    Checked =>
        /\ \A e \in chk["p1"].posted : e.pub # NoVal
        /\ \A k \in 1..Len(chk["p1"].attempts) :
              chk["p1"].attempts[k].entry.pub # NoVal
        /\ (fileContent \ chk["p1"].ledger)
              \subseteq Keys(Dated(chk["p1"].fetched))

\* C27 witness: the fetch held a dated and an undated entry, the dated one
\* was posted and recorded, the identifier of the undated one is not in the
\* ledger
C27_Witness ==
    /\ Checked
    /\ \E e \in chk["p1"].fetched :
          /\ e.pub = NoVal
          /\ EntryKey(e) \notin fileContent
          /\ EntryKey(e) \notin Keys(Dated(chk["p1"].fetched))
    /\ Cardinality(chk["p1"].posted) = 1
    /\ Keys(chk["p1"].posted) \subseteq fileContent \ chk["p1"].ledger
    /\ chk["p1"].attempts # <<>>

\* C28: the delivery attempts of a check are in non-decreasing order of
\* publish time, and the attempts for one entry are consecutive.
C28_OldestFirst ==
    Checked =>
        LET a == chk["p1"].attempts
        IN /\ \A j, k \in 1..Len(a) :
                j < k => a[j].entry.pub <= a[k].entry.pub
           /\ \A i, j, k \in 1..Len(a) :
                (i < j /\ j < k /\ a[i].entry = a[k].entry)
                    => a[j].entry = a[i].entry

\* C28 witness: two entries of different hours were sent to two endpoints
\* each, the older entry first
C28_Witness ==
    /\ Checked
    /\ Len(chk["p1"].attempts) = 4
    /\ chk["p1"].attempts[1].entry = chk["p1"].attempts[2].entry
    /\ chk["p1"].attempts[3].entry = chk["p1"].attempts[4].entry
    /\ chk["p1"].attempts[2].entry.pub < chk["p1"].attempts[3].entry.pub

\* C29: a check whose fetch holds no entry published within the 24 hours
\* before the check makes no delivery attempt, returns no delivery outcome
\* and leaves the ledger as it was.
C29_NothingRecentNothingDone ==
    (/\ Checked
     /\ \A e \in chk["p1"].fetched :
           e.pub = NoVal \/ chk["p1"].now - e.pub > WindowHours)
        => /\ chk["p1"].attempts = <<>>
           /\ chk["p1"].last = NoStatus
           /\ fileContent = chk["p1"].ledger

\* C30: the first check of a feed that finds recent entries posts at most one
\* entry, whatever the earlier checks of the feed did.
C30_FirstFindingPostsOne ==
    \A f \in FeedIds :
        (/\ Checked
         /\ chk["p1"].feed = f
         /\ chk["p1"].recent # {}
         /\ ~prevChk[f].seeded)
            => Cardinality(chk["p1"].posted) <= 1

\* C31: when a check returns to the scheduler, the entry of the feed in the
\* scheduler's map and in the file gets the returned status and the scan time;
\* its last delivery outcome is the one of the check when the check made an
\* attempt and stays what it was otherwise; the entries of the other feeds in
\* the scheduler's map stay as they were.
C31_SaveWritesOwnEntry ==
    [][\A f \in FeedIds :
          (Checked /\ pc'["p1"] = "scan" /\ f = chk["p1"].feed) =>
              /\ feedState'[f].present
              /\ feedState'[f].status_code = chk["p1"].status
              /\ feedState'[f].last_checked = scanNow["p1"]
              /\ feedState'[f].last_post =
                    IF chk["p1"].attempts # <<>> THEN chk["p1"].last
                    ELSE snap["p1"][f].last_post
              /\ snap'["p1"][f] = feedState'[f]
              /\ \A g \in FeedIds \ {f} : snap'["p1"][g] = snap["p1"][g]]_vars

\* C31 witness: the first feed was checked in the second hour, the check
\* found nothing recent and made no attempt, and the entry still holds the
\* outcome of the delivery of the hour before
C31_Witness ==
    /\ feedState["f1"].last_checked = StartHour + 1
    /\ feedState["f1"].last_post = "Rate Limited"
    /\ prevChk["f1"].done
    /\ prevChk["f1"].recent = {}

\* C32: the description of an embed has at most 250 characters; a summary
\* that after the removal of its tags has more than 250 characters is cut to
\* its first 247 characters followed by the three characters of the marker,
\* and one of at most 250 characters is the description as it is.
C32_DescriptionWithinBudget ==
    embed.built =>
        LET stripped == StripSpace(StripTags(summary))
            d == embed.description
        IN /\ Len(d) <= 250
           /\ Len(stripped) > 250 =>
                 /\ Len(d) = 247 + 3
                 /\ SubSeq(d, 1, 247) = SubSeq(stripped, 1, 247)
                 /\ SubSeq(d, 248, 250) = <<".", ".", ".">>
           /\ Len(stripped) <= 250 => d = stripped

\* C32 witness: a summary with tags that is longer than the budget once the
\* tags are removed has been cut
C32_Witness ==
    /\ embed.built
    /\ Len(StripTags(summary)) < Len(summary)
    /\ Len(StripSpace(StripTags(summary))) = Budget + 1
    /\ Len(embed.description) = Budget

\* C33: when a scheduler saves the result of the check of one feed, the
\* entry every other feed has in the check-state file at that moment, whoever
\* wrote it, is in the file afterwards.
C33_OtherFeedsKept ==
    [][\A p \in Procs, f \in FeedIds :
          (pc[p] = "checked" /\ pc'[p] = "scan" /\ f # chk[p].feed) =>
              feedState'[f] = feedState[f]]_vars

\* C34: when check_single_feed has made its delivery attempts, the identifier
\* of every entry it sent is in the ledger file.
C34_RecordedBeforeDispatch ==
    Checked =>
        \A k \in 1..Len(chk["p1"].attempts) :
            EntryKey(chk["p1"].attempts[k].entry) # NoVal =>
                EntryKey(chk["p1"].attempts[k].entry) \in fileContent

\* C35: every feed that has an entry in the check-state file has a
\* last-checked time and a status code there.
C35_NoPlaceholderPersisted ==
    \A f \in FeedIds :
        feedState[f].present =>
            /\ feedState[f].last_checked # NoVal
            /\ feedState[f].status_code # NoVal

C37_RaisedIsDueAgain ==
    \A i \in scanHist["p1"].raised :
        LET f == config[i].id
            old == scanHist["p1"].loaded[f]
        IN /\ feedState[f].last_checked = old.last_checked
           /\ feedState[f].status_code = old.status_code
           /\ snap["p1"][f].last_checked = old.last_checked
           /\ snap["p1"][f].status_code = old.status_code
           /\ pc["p1"] = "idle" =>
                 /\ DueBy(feedState[f], clock, config[i].update_interval)
                 /\ ShouldCheck(feedState[f], clock, config[i].update_interval)

\* C37 witness: the first feed was checked in the first hour, its check of
\* the second hour raised, and the scheduler sleeps before the next scan
C37_Witness ==
    /\ pc["p1"] = "idle"
    /\ clock = StartHour + 1
    /\ scanNow["p1"] = StartHour + 1
    /\ 1 \in scanHist["p1"].raised
    /\ feedState["f1"].last_checked = StartHour
    /\ feedState["f1"].status_code = 200

\* C38: a user created through add_user by a caller who is not the owner
\* has neither role super_admin nor role owner, and no caller with role admin
\* creates a user.
C38_OnlyOwnerCreatesPrivileged ==
    userHist.op = "add" =>
        /\ userHist.by # "admin"
        /\ userHist.by # "owner" =>
              userHist.role \notin {"super_admin", "owner"}

\* C39: once users.json exists it holds a user with role owner.
C39_OwnerRemains ==
    usersExist => \E i \in 1..Len(users) : users[i].role = "owner"

====
